---- MODULE Spec2Model ----
(***************************************************************************)
(* A model of the prana-api client library (src/prana_api): the Token      *)
(* Manager and its JWT helpers (auth.py), the token pair (models.py) and   *)
(* the asynchronous API client (client.py) with its Response Classifier,   *)
(* automatic token refresh and the concurrent device-state fetch.          *)
(*                                                                         *)
(* Python values are modelled as tagged records: [t |-> "int", n |-> 5],   *)
(* [t |-> "str", s |-> "abc"], [t |-> "null"] (None), and so on.  A JSON   *)
(* object is a record with one field per key the code reads, an absent key *)
(* holding Absent.  A token string is a record saying how the string       *)
(* splits on "." and what its middle segment decodes to.                   *)
(***************************************************************************)
EXTENDS Integers, Sequences, FiniteSets, TLC

(***************************************************************************)
(* Bounds of the model and program constants.                              *)
(***************************************************************************)
\* The clock runs over 0..MaxNow seconds.
MaxNow == 2
\* buffer_seconds, the default safety buffer of is_token_expired.
BufferSeconds == 60
\* Sleep-timer bytes run over 0..MaxByte.
MaxByte == 255
\* Raw motor speeds run over 0..MaxMotor (internal scale 0-50).
MaxMotor == 50
\* The transports a client may create.
MaxTransports == 4

VARIABLES
    auto_refresh,   \* PranaClient.auto_refresh
    token_pair,     \* TokenManager._token_pair
    transport,      \* PranaClient._client: is a transport held
    now,            \* time.time(), in seconds
    tasks,          \* the coroutines: 0 the caller's call, 1 and 2 the gathered sub-fetches
    lastTokens,     \* history: the body of the last response a token pair was built from
    tk_out,         \* the result of the last function applied on its own (SpecTok, SpecCls)
    fn_in,          \* the input of a function applied on its own (SpecCls, SpecDec)
    life            \* history of the transports: how many were created and closed (SpecTr)

vars == <<auto_refresh, token_pair, transport, now, tasks, lastTokens, tk_out, fn_in, life>>

(***************************************************************************)
(* Python values.                                                          *)
(***************************************************************************)
Absent == [t |-> "absent"]
PyNone == [t |-> "null"]
PyInt(n) == [t |-> "int", n |-> n]
PyStr(s) == [t |-> "str", s |-> s]
PyBool(b) == [t |-> "bool", b |-> b]
PyList(len) == [t |-> "list", len |-> len]
NotJson == [t |-> "notjson"]

\* The claims of a decoded JWT payload that the code reads.
JwtDict(exp, userId, customerId, other) ==
    [t |-> "dict", exp |-> exp, userId |-> userId, customerId |-> customerId, other |-> other]

EmptyDict == JwtDict(Absent, Absent, Absent, FALSE)

\* dict.get(key): the value, None when the key is absent.
DictGet(v) == IF v = Absent THEN PyNone ELSE v

\* Python truthiness (bool(v)).
Truthy(v) ==
    CASE v.t = "absent" -> FALSE
      [] v.t = "null" -> FALSE
      [] v.t = "int" -> v.n # 0
      [] v.t = "str" -> IF "chars" \in DOMAIN v THEN Len(v.chars) > 0 ELSE v.s # ""
      [] v.t = "bool" -> v.b
      [] v.t = "list" -> v.len # 0
      [] v.t = "dict" -> v.exp # Absent \/ v.userId # Absent \/ v.customerId # Absent \/ v.other
      [] v.t = "float" -> ~(v.kind = "finite" /\ v.tenths = 0)
      [] v.t \in {"big", "object", "sample", "rec", "text", "entity"} -> TRUE
      [] OTHER -> FALSE

\* What a function call ends in: a returned value or a raised exception.
Ret(v) == [r |-> "return", v |-> v]
Raise(e) == [r |-> "raise", e |-> e]

(***************************************************************************)
(* Token strings.  empty: the string is ""; parts: len(token.split("."));  *)
(* plen: the length of the second segment; json: what the bytes of the     *)
(* second segment parse to with json.loads (NotJson when they do not).     *)
(***************************************************************************)
Token(parts, plen, json) == [empty |-> FALSE, parts |-> parts, plen |-> plen, json |-> json]
EmptyToken == [empty |-> TRUE, parts |-> 1, plen |-> 0, json |-> NotJson]

\* base64.urlsafe_b64decode after the code's padding: 4 - len % 4 pad characters
\* unless that is 4.  A segment of 4k+1 characters cannot be decoded however it
\* is padded; every other length decodes.
Padding(plen) == 4 - (plen % 4)
B64Decodes(plen) == LET padded == IF Padding(plen) # 4 THEN plen + Padding(plen) ELSE plen
                    IN  padded % 4 = 0 /\ plen % 4 # 1

decode_jwt_payload(token) ==
    IF token.parts # 3 THEN EmptyDict
    ELSE IF ~B64Decodes(token.plen) THEN EmptyDict
    ELSE IF token.json = NotJson THEN EmptyDict
    ELSE token.json

\* exp - buffer_seconds, then time.time() >= it: numbers only (True counts as 1).
is_token_expired_NoBuffer(token, t) ==
    LET payload == decode_jwt_payload(token) IN
    IF ~Truthy(payload) THEN Ret(PyBool(TRUE))
    ELSE IF payload.t # "dict" THEN Raise("AttributeError")
    ELSE LET exp == DictGet(payload.exp) IN
         IF ~Truthy(exp) THEN Ret(PyBool(TRUE))
         ELSE IF exp.t = "int" THEN Ret(PyBool(t >= exp.n))
         ELSE IF exp.t = "bool" THEN Ret(PyBool(t >= 1))
         ELSE Raise("TypeError")

is_token_expired(token, t) ==
    LET payload == decode_jwt_payload(token) IN
    IF ~Truthy(payload) THEN Ret(PyBool(TRUE))
    ELSE IF payload.t # "dict" THEN Raise("AttributeError")
    ELSE LET exp == DictGet(payload.exp) IN
         IF ~Truthy(exp) THEN Ret(PyBool(TRUE))
         ELSE IF exp.t = "int" THEN Ret(PyBool(t >= exp.n - BufferSeconds))
         ELSE IF exp.t = "bool" THEN Ret(PyBool(t >= 1 - BufferSeconds))
         ELSE Raise("TypeError")

get_user_id_from_token(token) ==
    LET payload == decode_jwt_payload(token) IN
    IF payload.t # "dict" THEN Raise("AttributeError")
    ELSE Ret(DictGet(payload.userId))

get_customer_id_from_token(token) ==
    LET payload == decode_jwt_payload(token) IN
    IF payload.t # "dict" THEN Raise("AttributeError")
    ELSE Ret(DictGet(payload.customerId))

(***************************************************************************)
(* TokenPair and the Token Manager.                                        *)
(***************************************************************************)
NoPair == [held |-> FALSE]
TokenPair(access, refresh, type) ==
    [held |-> TRUE, access_token |-> access, refresh_token |-> refresh, token_type |-> type]

\* TokenManager.access_token / refresh_token: None without a pair.
HasAccessToken(pair) == pair.held /\ ~pair.access_token.empty
HasRefreshToken(pair) == pair.held /\ ~pair.refresh_token.empty

\* The truth value of the property (it returns the access token itself).
is_authenticated_ByRefresh(pair) == pair.held /\ ~pair.refresh_token.empty
is_authenticated(pair) == pair.held /\ ~pair.access_token.empty

is_access_token_expired(pair, t) ==
    IF ~HasAccessToken(pair) THEN Ret(PyBool(TRUE))
    ELSE is_token_expired(pair.access_token, t)

is_refresh_token_expired(pair, t) ==
    IF ~HasRefreshToken(pair) THEN Ret(PyBool(TRUE))
    ELSE is_token_expired(pair.refresh_token, t)

set_tokens_KeepRefresh(pair, new) ==
    IF pair.held THEN TokenPair(new.access_token, pair.refresh_token, new.token_type) ELSE new
set_tokens(pair, new) == new

clear_tokens(pair) == NoPair

\* The header dict: no header, or Authorization: f"{token_type} {access_token}".
NoHeader == [present |-> FALSE]
AuthHeader(type, access) == [present |-> TRUE, scheme |-> type, credentials |-> access]

get_authorization_header(pair) ==
    IF HasAccessToken(pair) THEN AuthHeader(pair.token_type, pair.access_token)
    ELSE NoHeader

get_user_id(pair) ==
    IF HasAccessToken(pair) THEN get_user_id_from_token(pair.access_token) ELSE Ret(PyNone)

get_customer_id(pair) ==
    IF HasAccessToken(pair) THEN get_customer_id_from_token(pair.access_token) ELSE Ret(PyNone)

(***************************************************************************)
(* Strings whose characters the code inspects: sequences of characters.    *)
(***************************************************************************)
LowerOf == [A |-> "a", B |-> "b", C |-> "c", D |-> "d", E |-> "e", F |-> "f", G |-> "g",
            H |-> "h", I |-> "i", J |-> "j", K |-> "k", L |-> "l", M |-> "m", N |-> "n",
            O |-> "o", P |-> "p", Q |-> "q", R |-> "r", S |-> "s", T |-> "t", U |-> "u",
            V |-> "v", W |-> "w", X |-> "x", Y |-> "y", Z |-> "z"]

\* str.lower()
Lower(chars) == [i \in 1..Len(chars) |-> IF chars[i] \in DOMAIN LowerOf THEN LowerOf[chars[i]] ELSE chars[i]]

\* needle in hay
Contains(needle, hay) ==
    \E i \in 1..(Len(hay) - Len(needle) + 1) : SubSeq(hay, i, i + Len(needle) - 1) = needle

NEEDLE_INVALID == <<"I", "n", "v", "a", "l", "i", "d", " ", "u", "s", "e", "r", "n", "a", "m", "e", " ", "o", "r", " ", "p", "a", "s", "s", "w", "o", "r", "d">>
NEEDLE_NOT_ACTIVE == <<"n", "o", "t", " ", "a", "c", "t", "i", "v", "e">>
NEEDLE_EXPIRED == <<"e", "x", "p", "i", "r", "e", "d">>

\* Messages the remote may put in an error body.
MsgInvalid == <<"I", "n", "v", "a", "l", "i", "d", " ", "u", "s", "e", "r", "n", "a", "m", "e", " ", "o", "r", " ", "p", "a", "s", "s", "w", "o", "r", "d">>
MsgNotActive == <<"U", "s", "e", "r", " ", "i", "s", " ", "n", "o", "t", " ", "a", "c", "t", "i", "v", "e">>
MsgNotActiveCaps == <<"U", "s", "e", "r", " ", "N", "o", "t", " ", "A", "c", "t", "i", "v", "e">>
MsgExpired == <<"T", "o", "k", "e", "n", " ", "h", "a", "s", " ", "e", "x", "p", "i", "r", "e", "d">>
MsgExpiredCaps == <<"J", "W", "T", " ", "E", "x", "p", "i", "r", "e", "d">>
MsgOther == <<"A", "u", "t", "h", "e", "n", "t", "i", "c", "a", "t", "i", "o", "n", " ", "f", "a", "i", "l", "e", "d">>

Messages == {MsgInvalid, MsgNotActive, MsgNotActiveCaps, MsgExpired, MsgExpiredCaps, MsgOther}

PyText(chars) == [t |-> "str", chars |-> chars]

(***************************************************************************)
(* HTTP responses.  A body is empty, text that is not JSON, or JSON: an    *)
(* object (the keys the client reads, Absent when missing) or a list.      *)
(***************************************************************************)
JsonObject(message, token, accessToken, refreshToken, tokenType) ==
    [t |-> "dict", message |-> message, token |-> token, accessToken |-> accessToken,
     refreshToken |-> refreshToken, tokenType |-> tokenType]

PlainObject == JsonObject(Absent, Absent, Absent, Absent, Absent)

EmptyBody == [content |-> "empty"]
\* haskey: the text contains the name of a state field as a substring.
TextBody(haskey) == [content |-> "text", haskey |-> haskey]
JsonBody(json) == [content |-> "json", json |-> json]

\* httpx.RequestError, or a response with a status code.
NetFailure == [http |-> FALSE]
Http(status, body) == [http |-> TRUE, status |-> status, body |-> body]

\* An exception of the client's taxonomy (status 0: status_code None), or a
\* Python exception outside it.
Err(kind, status) == [r |-> "raise", e |-> kind, status |-> status]
NoRes == [r |-> "none"]

\* The error kinds of the client's taxonomy: PranaAPIError and its subclasses.
ErrorKinds ==
    {"PranaAPIError", "AuthenticationError", "TokenExpiredError", "InvalidCredentialsError",
     "UserNotActiveError", "DeviceNotFoundError", "RPCError", "RateLimitError", "NetworkError"}

\* error_data.get("message", default) inside try/except Exception: the default
\* when the body is not JSON, not an object, or has no message.
ErrorMessage(body) ==
    IF body.content # "json" THEN Absent
    ELSE IF body.json.t # "dict" THEN Absent
    ELSE body.json.message

\* The 401 branch: the substring tests run on whatever message was found.  "in"
\* raises on None and on a number; on a list or an object it is false, and
\* message.lower() raises.
Classify401(body) ==
    LET m == ErrorMessage(body) IN
    IF m = Absent THEN Err("AuthenticationError", 401)
    ELSE IF m.t \in {"null", "int", "bool"} THEN Err("TypeError", 0)
    ELSE IF m.t # "str" THEN Err("AttributeError", 0)
    ELSE IF Contains(NEEDLE_INVALID, m.chars) THEN Err("InvalidCredentialsError", 401)
    ELSE IF Contains(NEEDLE_NOT_ACTIVE, m.chars) THEN Err("UserNotActiveError", 401)
    ELSE IF Contains(NEEDLE_EXPIRED, Lower(m.chars)) THEN Err("TokenExpiredError", 401)
    ELSE Err("AuthenticationError", 401)

\* _handle_response: the outcome is a function of the status code and the body.
handle_response_Any2xx(response) ==
    IF response.status \in 200..299 THEN
        IF response.body.content = "empty" THEN Ret(PyNone)
        ELSE IF response.body.content = "json" THEN Ret(response.body.json)
        ELSE Ret([t |-> "text", haskey |-> response.body.haskey])
    ELSE IF response.status = 401 THEN Classify401(response.body)
    ELSE IF response.status = 404 THEN Err("DeviceNotFoundError", 404)
    ELSE IF response.status = 429 THEN Err("RateLimitError", 429)
    ELSE Err("PranaAPIError", response.status)

handle_response(response) ==
    IF response.status = 200 THEN
        IF response.body.content = "empty" THEN Ret(PyNone)
        ELSE IF response.body.content = "json" THEN Ret(response.body.json)
        ELSE Ret([t |-> "text", haskey |-> response.body.haskey])
    ELSE IF response.status = 401 THEN Classify401(response.body)
    ELSE IF response.status = 404 THEN Err("DeviceNotFoundError", 404)
    ELSE IF response.status = 429 THEN Err("RateLimitError", 429)
    ELSE Err("PranaAPIError", response.status)

\* client.request(...) and _handle_response: a transport failure is a NetworkError.
RequestOutcome(response) ==
    IF ~response.http THEN Err("NetworkError", 0) ELSE handle_response(response)

\* get_device_telemetry: what its request ended in.
get_device_telemetry(out) == out

\* get_device_attributes: result if isinstance(result, list) else [].
get_device_attributes(out) ==
    IF out.r = "raise" THEN out
    ELSE IF out.v.t = "list" THEN out
    ELSE Ret(PyList(0))

\* TokenPair.from_response(data): data.get(...) on anything but a dict raises.
from_response(data) ==
    IF data.t # "dict" THEN Err("AttributeError", 0)
    ELSE Ret(TokenPair(
            IF data.token # Absent THEN data.token
            ELSE IF data.accessToken # Absent THEN data.accessToken ELSE EmptyToken,
            IF data.refreshToken # Absent THEN data.refreshToken ELSE EmptyToken,
            IF data.tokenType # Absent THEN data.tokenType.s ELSE "Bearer"))

\* The body of a user-info answer, by the one key of it that get_user_devices
\* uses, and the entity id object that key holds.
UserDict(customerId) == [t |-> "dict", customerId |-> customerId]
EntityIdDict(id) == [t |-> "entity", id |-> id]

\* User.from_dict(data) and then user.customer_id.id if user.customer_id is set:
\* data.get raises on anything but an object; a truthy customerId that is no
\* object raises in EntityId.from_dict; a missing id is "".
user_customer_id(data) ==
    IF data.t # "dict" THEN Raise("AttributeError")
    ELSE LET c == IF "customerId" \in DOMAIN data THEN data.customerId ELSE Absent IN
         IF c.t = "entity" THEN Ret(IF c.id = Absent THEN PyStr("") ELSE c.id)
         ELSE IF Truthy(c) THEN Raise("AttributeError")
         ELSE Ret(PyNone)

(***************************************************************************)
(* Field values of telemetry and attributes, and their conversions.  A     *)
(* float is a number of tenths, infinity or NaN; a number too large for    *)
(* the model's integers is known by its magnitude only.                    *)
(***************************************************************************)
PyFloat(tenths) == [t |-> "float", kind |-> "finite", tenths |-> tenths]
PyInf == [t |-> "float", kind |-> "inf", tenths |-> 0]
PyNan == [t |-> "float", kind |-> "nan", tenths |-> 0]
\* size: "epoch_ms", a millisecond timestamp of our days; "year_overflow", beyond
\* the year 9999 when read as milliseconds; "time_t_overflow", beyond time_t.
PyBig(size) == [t |-> "big", size |-> size]
\* A non-empty JSON object as a field value.
PyObject == [t |-> "object"]

DigitOf == [c \in {"0", "1", "2", "3", "4", "5", "6", "7", "8", "9"} |->
               CASE c = "0" -> 0 [] c = "1" -> 1 [] c = "2" -> 2 [] c = "3" -> 3 [] c = "4" -> 4
                 [] c = "5" -> 5 [] c = "6" -> 6 [] c = "7" -> 7 [] c = "8" -> 8 [] c = "9" -> 9]

IsDigits(chars) == Len(chars) > 0 /\ \A i \in 1..Len(chars) : chars[i] \in DOMAIN DigitOf

RECURSIVE DigitsValue(_)
DigitsValue(chars) ==
    IF Len(chars) = 0 THEN 0
    ELSE 10 * DigitsValue(SubSeq(chars, 1, Len(chars) - 1)) + DigitOf[chars[Len(chars)]]

\* float(str) for the strings of the model: digits, digits with one decimal,
\* an optional minus sign, "inf" and "nan" in any letter case; anything else is
\* a ValueError.
RECURSIVE ParseFloat(_)
ParseFloat(chars) ==
    IF Lower(chars) = <<"i", "n", "f">> THEN Ret(PyInf)
    ELSE IF Lower(chars) = <<"n", "a", "n">> THEN Ret(PyNan)
    ELSE IF Len(chars) > 1 /\ chars[1] = "-" THEN
        LET rest == ParseFloat(Tail(chars)) IN
        IF rest.r = "return" /\ rest.v.kind = "finite" THEN Ret(PyFloat(0 - rest.v.tenths)) ELSE Raise("ValueError")
    ELSE IF IsDigits(chars) THEN Ret(PyFloat(10 * DigitsValue(chars)))
    ELSE IF /\ Len(chars) > 2
            /\ chars[Len(chars) - 1] = "."
            /\ IsDigits(SubSeq(chars, 1, Len(chars) - 2))
            /\ chars[Len(chars)] \in DOMAIN DigitOf
         THEN Ret(PyFloat(10 * DigitsValue(SubSeq(chars, 1, Len(chars) - 2)) + DigitOf[chars[Len(chars)]]))
    ELSE Raise("ValueError")

\* float(val)
float(val) ==
    CASE val.t = "bool" -> Ret(PyFloat(IF val.b THEN 10 ELSE 0))
      [] val.t = "int" -> Ret(PyFloat(10 * val.n))
      [] val.t = "float" -> Ret(val)
      [] val.t = "big" -> Ret(val)
      [] val.t = "str" -> ParseFloat(val.chars)
      [] OTHER -> Raise("TypeError")

\* int(float): truncation toward zero; infinity and NaN are refused.
int(f) ==
    IF f.t = "big" THEN Ret(f)
    ELSE IF f.kind = "inf" THEN Raise("OverflowError")
    ELSE IF f.kind = "nan" THEN Raise("ValueError")
    ELSE IF f.tenths >= 0 THEN Ret(PyInt(f.tenths \div 10))
    ELSE Ret(PyInt(0 - ((0 - f.tenths) \div 10)))

(***************************************************************************)
(* Telemetry and attribute snapshots, and PranaState.from_telemetry.       *)
(* A snapshot that is a JSON object holds an entry per key (Absent when    *)
(* the key is missing); an attribute snapshot may also be a list of        *)
(* records {key, value}.                                                   *)
(***************************************************************************)
Keys == {"lastActivityTime", "sleepSecondsLsb", "sleepSecondsMsb", "motorsSup", "motorsExt",
         "powerPosition", "humidity"}

NoEntries == [k \in Keys |-> Absent]
Snapshot(e) == [t |-> "dict", e |-> e]
\* The entries of a JSON object; one that was not built as a snapshot has none of the keys.
Entries(obj) == IF "e" \in DOMAIN obj THEN obj.e ELSE NoEntries

\* A list with its items; a list known by its length only holds numbers.
ListOf(items) == [t |-> "list", len |-> Len(items), items |-> items]
Items(list) == IF "items" \in DOMAIN list THEN list.items ELSE [i \in 1..list.len |-> PyInt(1)]

\* A telemetry sample {ts, value} and an attribute record {key, value}; a missing
\* member is Absent.
Sample(value) == [t |-> "sample", value |-> value]
Rec(key, value) == [t |-> "rec", key |-> key, value |-> value]

\* get_telemetry_value(key)
get_telemetry_value(telemetry, key) ==
    CASE telemetry.t \in {"null", "int", "bool", "float"} -> Raise("TypeError")
      [] telemetry.t = "text" -> IF telemetry.haskey THEN Raise("TypeError") ELSE Ret(PyNone)
      [] telemetry.t = "list" -> Ret(PyNone)
      [] telemetry.t = "dict" ->
            LET values == Entries(telemetry)[key] IN
            IF ~Truthy(values) THEN Ret(PyNone)
            ELSE IF values.t = "list" THEN
                LET first == Items(values)[1] IN
                IF first.t = "sample" THEN Ret(DictGet(first.value)) ELSE Ret(first)
            ELSE Ret(values)

\* The value of the first record of the list carrying the key; item.get raises on
\* an item that is no object.
RECURSIVE FindAttr(_, _)
FindAttr(items, key) ==
    IF Len(items) = 0 THEN Ret(PyNone)
    ELSE IF Head(items).t # "rec" THEN Raise("AttributeError")
    ELSE IF Head(items).key = PyStr(key) THEN Ret(DictGet(Head(items).value))
    ELSE FindAttr(Tail(items), key)

\* attributes = attributes or {}
OrEmpty(attributes) == IF attributes.t = "dict" \/ Truthy(attributes) THEN attributes ELSE Snapshot(NoEntries)

\* get_attr_value(key)
get_attr_value(attributes, key) ==
    LET attrs == OrEmpty(attributes) IN
    IF attrs.t = "dict" THEN Ret(DictGet(Entries(attrs)[key]))
    ELSE IF attrs.t = "list" THEN FindAttr(Items(attrs), key)
    ELSE Ret(PyNone)

\* get_value(key): telemetry first, then attributes.
get_value_AttributesFirst(telemetry, attributes, key) ==
    LET a == get_attr_value(attributes, key) IN
    IF a.r = "raise" THEN a
    ELSE IF a.v = PyNone THEN get_telemetry_value(telemetry, key)
    ELSE a

get_value(telemetry, attributes, key) ==
    LET val == get_telemetry_value(telemetry, key) IN
    IF val.r = "raise" THEN val
    ELSE IF val.v = PyNone THEN get_attr_value(attributes, key)
    ELSE val

\* get_bool(key)
get_bool(telemetry, attributes, key) ==
    LET got == get_value(telemetry, attributes, key) IN
    IF got.r = "raise" THEN got
    ELSE LET val == got.v IN
         CASE val.t = "null" -> Ret(PyBool(FALSE))
           [] val.t = "bool" -> Ret(val)
           [] val.t = "int" -> Ret(PyBool(val.n >= 1))
           [] val.t = "float" -> Ret(PyBool(val.kind = "inf" \/ (val.kind = "finite" /\ val.tenths >= 10)))
           [] val.t = "big" -> Ret(PyBool(TRUE))
           [] val.t = "str" -> Ret(PyBool(Lower(val.chars) \in {<<"t", "r", "u", "e">>, <<"1">>, <<"y", "e", "s">>}))
           [] OTHER -> Ret(PyBool(Truthy(val)))

\* get_int(key): int(float(val)), None on ValueError and TypeError.
get_int(telemetry, attributes, key) ==
    LET got == get_value(telemetry, attributes, key) IN
    IF got.r = "raise" THEN got
    ELSE IF got.v = PyNone THEN Ret(PyNone)
    ELSE LET f == float(got.v) IN
         IF f.r = "raise" THEN Ret(PyNone)
         ELSE LET i == int(f.v) IN
              IF i.r = "raise" /\ i.e = "ValueError" THEN Ret(PyNone) ELSE i

\* get_float(key)
get_float(telemetry, attributes, key) ==
    LET got == get_value(telemetry, attributes, key) IN
    IF got.r = "raise" THEN got
    ELSE IF got.v = PyNone THEN Ret(PyNone)
    ELSE LET f == float(got.v) IN
         IF f.r = "raise" THEN Ret(PyNone) ELSE f

\* datetime.fromtimestamp(ts / 1000) inside try/except (ValueError, TypeError, OSError):
\* a datetime, None, or the OverflowError that is not caught.
last_activity(attributes) ==
    LET got == get_attr_value(attributes, "lastActivityTime") IN
    IF got.r = "raise" THEN got
    ELSE LET ts == got.v IN
         IF ~Truthy(ts) THEN Ret(PyNone)
         ELSE CASE ts.t \in {"int", "bool"} -> Ret([t |-> "datetime"])
                [] ts.t = "float" -> IF ts.kind = "finite" THEN Ret([t |-> "datetime"])
                                     ELSE IF ts.kind = "nan" THEN Ret(PyNone)
                                     ELSE Raise("OverflowError")
                [] ts.t = "big" -> IF ts.size = "epoch_ms" THEN Ret([t |-> "datetime"])
                                   ELSE IF ts.size = "year_overflow" THEN Ret(PyNone)
                                   ELSE Raise("OverflowError")
                [] OTHER -> Ret(PyNone)

\* (get_int(lsb) or 0) + ((get_int(msb) or 0) << 8)
sleep_seconds_MsbTimes255(lsb, msb) ==
    LET OrZero(v) == IF Truthy(v) THEN v.n ELSE 0 IN PyInt(OrZero(lsb) + OrZero(msb) * 255)

sleep_seconds(lsb, msb) ==
    LET OrZero(v) == IF Truthy(v) THEN v.n ELSE 0 IN PyInt(OrZero(lsb) + OrZero(msb) * 256)

\* raw // 10 if raw is not None else None
display_speed(raw) == IF raw = PyNone THEN PyNone ELSE PyInt(raw.n \div 10)

\* The raw_attributes argument: a mapping as it is; of a list the dict
\* {a["key"]: a["value"] for a in attributes}, in which a later record of a key
\* replaces an earlier one (pairs: the key-value pairs the dict holds).
raw_attributes(attributes) ==
    LET attrs == OrEmpty(attributes) IN
    IF attrs.t = "dict" THEN Ret(attrs)
    ELSE IF attrs.t # "list" THEN Raise("TypeError")
    ELSE IF \E i \in 1..attrs.len : Items(attrs)[i].t # "rec" THEN Raise("TypeError")
    ELSE IF \E i \in 1..attrs.len : Items(attrs)[i].key = Absent \/ Items(attrs)[i].value = Absent
         THEN Raise("KeyError")
    ELSE LET items == Items(attrs) IN
         Ret([t |-> "dict",
              pairs |-> { <<items[i].key, items[i].value>> :
                             i \in {n \in 1..attrs.len : \A m \in (n + 1)..attrs.len : items[m].key # items[n].key} }])

PranaState(supply_speed, extract_speed, sleep_seconds_, is_power_on, humidity, last_activity_time, raw_telemetry, raw_attributes_) ==
    [t |-> "PranaState", supply_speed |-> supply_speed, extract_speed |-> extract_speed,
     sleep_seconds |-> sleep_seconds_, is_power_on |-> is_power_on, humidity |-> humidity,
     last_activity_time |-> last_activity_time, raw_telemetry |-> raw_telemetry,
     raw_attributes |-> raw_attributes_]

\* PranaState.from_telemetry: the steps in the order the code takes them; the
\* first one that raises ends the call.
from_telemetry(telemetry, attributes) ==
    LET last == last_activity(attributes)
        lsb == get_int(telemetry, attributes, "sleepSecondsLsb")
        msb == get_int(telemetry, attributes, "sleepSecondsMsb")
        sup == get_int(telemetry, attributes, "motorsSup")
        ext == get_int(telemetry, attributes, "motorsExt")
        power == get_bool(telemetry, attributes, "powerPosition")
        humidity == get_float(telemetry, attributes, "humidity")
        raw == raw_attributes(attributes)
        steps == <<last, lsb, msb, sup, ext, power, humidity, raw>>
        raising == {i \in 1..Len(steps) : steps[i].r = "raise"}
    IN  IF raising # {}
        THEN Err(steps[CHOOSE i \in raising : \A j \in raising : i <= j].e, 0)
        ELSE Ret(PranaState(display_speed(sup.v), display_speed(ext.v),
                            sleep_seconds(lsb.v, msb.v),
                            power.v, humidity.v, last.v, telemetry, raw.v))

(***************************************************************************)
(* The remote platform, a black box: what it may answer to a request.      *)
(***************************************************************************)
\* A well-formed JWT: three segments, a payload that decodes to an object.
Jwt(exp, customerId) == Token(3, 40, JwtDict(PyInt(exp), PyStr("user"), customerId, TRUE))

\* Tokens the remote issues: they expire (with the buffer) at time 1 and at time 2.
JwtA == Jwt(BufferSeconds + 1, PyStr("customer"))
JwtB == Jwt(BufferSeconds + 2, Absent)
\* A token of three segments whose payload is the JSON list [1].
JwtList == Token(3, 4, PyList(1))

\* Bodies of a successful login or refresh.
TokenBodies ==
    { JsonObject(Absent, JwtA, Absent, JwtB, Absent),
      JsonObject(Absent, Absent, JwtB, JwtA, PyStr("Token")),
      JsonObject(Absent, JwtB, JwtA, Absent, Absent),
      JsonObject(Absent, Absent, Absent, JwtB, Absent),
      JsonObject(Absent, JwtList, Absent, JwtB, Absent) }

\* Bodies of any other successful request.
DataBodies ==
    { EmptyBody, TextBody(FALSE), TextBody(TRUE), JsonBody(PlainObject), JsonBody(PyList(0)), JsonBody(PyList(1)) }

ErrorBodies ==
    { EmptyBody, TextBody(FALSE), JsonBody(PyList(0)), JsonBody(PlainObject),
      JsonBody(JsonObject(PyNone, Absent, Absent, Absent, Absent)) }
    \cup { JsonBody(JsonObject(PyText(m), Absent, Absent, Absent, Absent)) : m \in Messages }

\* Answers that are not a 200: a 401 with every kind of body, and one answer for
\* each other way the classifier goes.
ErrorResponses ==
    { Http(401, b) : b \in ErrorBodies }
    \cup { Http(404, EmptyBody), Http(429, EmptyBody), Http(500, TextBody(FALSE)), Http(201, EmptyBody) }

\* Bodies of a user-info answer: no customer, a customer with and without an id,
\* a customer that is no object.
UserBodies ==
    { JsonBody(UserDict(c)) :
        c \in { Absent, PyNone, PyStr("customer"), EntityIdDict(Absent), EntityIdDict(PyNone),
                EntityIdDict(PyStr("")), EntityIdDict(PyStr("customer")) } }

TokenEndpoints == {"login", "token"}

Responses(endpoint) ==
    {NetFailure}
    \cup ErrorResponses
    \cup (IF endpoint \in TokenEndpoints
          THEN { Http(200, JsonBody(b)) : b \in TokenBodies } \cup { Http(200, EmptyBody) }
          ELSE { Http(200, b) : b \in DataBodies })
    \cup (IF endpoint = "get_user" THEN { Http(200, b) : b \in UserBodies } ELSE {})

(***************************************************************************)
(* The API client.  A task is a coroutine: pc is where it is suspended,    *)
(* op the operation it runs, req the request it awaits, res what it ended  *)
(* in, nref and nprim the refresh and primary requests it has sent, since   *)
(* the time its operation was called (kept while it runs), arg the         *)
(* argument its request is built from (an RPC method, a customer id).      *)
(***************************************************************************)
Main == 0
Telemetry == 1
Attributes == 2
Tasks == {Main, Telemetry, Attributes}
Children == {Telemetry, Attributes}

NoReq == [sent |-> FALSE]
Request(endpoint, auth, refreshToken) ==
    [sent |-> TRUE, endpoint |-> endpoint, auth |-> auth, refreshToken |-> refreshToken]

IdleTask ==
    [pc |-> "idle", op |-> "none", req |-> NoReq, res |-> NoRes, nref |-> 0, nprim |-> 0, since |-> 0,
     arg |-> PyNone]
NewTask(op) == [IdleTask EXCEPT !.op = op, !.since = now]

\* Operations whose request asks for the Authorization header (include_auth).
AuthOps == {"logout", "api", "telemetry", "attributes", "send_rpc_twoway", "get_user", "get_user_devices"}
Endpoint(op) == op

\* _get_headers(include_auth): the Authorization header of the held pair, if asked for.
get_headers_Always(pair, include_auth) == get_authorization_header(pair)

get_headers(pair, include_auth) ==
    IF include_auth THEN get_authorization_header(pair) ELSE NoHeader

\* The condition of _check_and_refresh_token, evaluated left to right:
\* "refresh", "skip", or the exception an expiry check raises.
check_and_refresh_token_IgnoreRefreshExpiry(auto, pair, t) ==
    IF ~auto THEN [do |-> "skip"]
    ELSE IF ~is_authenticated(pair) THEN [do |-> "skip"]
    ELSE LET a == is_access_token_expired(pair, t) IN
         IF a.r = "raise" THEN [do |-> "raise", e |-> a.e]
         ELSE IF ~a.v.b THEN [do |-> "skip"]
         ELSE [do |-> "refresh"]

check_and_refresh_token(auto, pair, t) ==
    IF ~auto THEN [do |-> "skip"]
    ELSE IF ~is_authenticated(pair) THEN [do |-> "skip"]
    ELSE LET a == is_access_token_expired(pair, t) IN
         IF a.r = "raise" THEN [do |-> "raise", e |-> a.e]
         ELSE IF ~a.v.b THEN [do |-> "skip"]
         ELSE LET r == is_refresh_token_expired(pair, t) IN
              IF r.r = "raise" THEN [do |-> "raise", e |-> r.e]
              ELSE IF r.v.b THEN [do |-> "skip"]
              ELSE [do |-> "refresh"]

\* A task that ends: its result, nothing in flight.
Ended(task, res) == [task EXCEPT !.pc = "done", !.req = NoReq, !.res = res, !.since = 0]

\* refresh_token() up to its await: no refresh token raises at once, otherwise the
\* refresh request goes out without an Authorization header.
refresh_token_start_PairOnly(task, pair) ==
    IF ~pair.held THEN Ended(task, Err("TokenExpiredError", 0))
    ELSE [task EXCEPT !.pc = "await_refresh",
                      !.req = Request("token", get_headers(pair, FALSE), pair.refresh_token),
                      !.nref = @ + 1]

refresh_token_start_WithAuth(task, pair) ==
    IF ~HasRefreshToken(pair) THEN Ended(task, Err("TokenExpiredError", 0))
    ELSE [task EXCEPT !.pc = "await_refresh",
                      !.req = Request("token", get_headers(pair, TRUE), pair.refresh_token),
                      !.nref = @ + 1]

refresh_token_start(task, pair) ==
    IF ~HasRefreshToken(pair) THEN Ended(task, Err("TokenExpiredError", 0))
    ELSE [task EXCEPT !.pc = "await_refresh",
                      !.req = Request("token", get_headers(pair, FALSE), pair.refresh_token),
                      !.nref = @ + 1]

\* _request from the headers on: the primary request goes out.
send_primary(task, pair) ==
    [task EXCEPT !.pc = "await_primary",
                 !.req = Request(Endpoint(task.op), get_headers(pair, task.op \in AuthOps), Absent),
                 !.nprim = @ + 1]

\* _request up to its first await.
request_start(task, auto, pair, t) ==
    IF task.op \in AuthOps THEN
        LET c == check_and_refresh_token(auto, pair, t) IN
        IF c.do = "raise" THEN Ended(task, Err(c.e, 0))
        ELSE IF c.do = "refresh" THEN refresh_token_start(task, pair)
        ELSE send_primary(task, pair)
    ELSE send_primary(task, pair)

\* RPCError(f"RPC command '{method}' failed: {e.message}", e.status_code) from e
RPCError(method, e) ==
    [r |-> "raise", e |-> "RPCError", status |-> e.status, method |-> method, cause |-> e.e]

\* The except clause of send_rpc_twoway around its request: it catches
\* PranaAPIError, that is every kind of the taxonomy.
send_rpc_twoway_except(task) ==
    IF task.op = "send_rpc_twoway" /\ task.pc = "done" /\ task.res.r = "raise" /\ task.res.e \in ErrorKinds
    THEN [task EXCEPT !.res = RPCError(task.arg, task.res)]
    ELSE task

\* get_user_devices once customer_id is known, by the claim or by the user: no id
\* raises PranaAPIError("Could not determine customer ID"), otherwise the listing
\* request of that customer starts.
list_devices_RetryUser(task, customer_id, auto, pair, t) ==
    IF ~Truthy(customer_id) THEN request_start([task EXCEPT !.op = "get_user"], auto, pair, t)
    ELSE request_start([task EXCEPT !.op = "get_user_devices", !.arg = customer_id], auto, pair, t)

list_devices(task, customer_id, auto, pair, t) ==
    IF ~Truthy(customer_id) THEN Ended([task EXCEPT !.op = "get_user_devices"], Err("PranaAPIError", 0))
    ELSE request_start([task EXCEPT !.op = "get_user_devices", !.arg = customer_id], auto, pair, t)

\* get_user_devices up to its first await: the customer id of the token's claim,
\* or else get_user().
get_user_devices_start(task, auto, pair, t) ==
    LET c == get_customer_id(pair) IN
    IF c.r = "raise" THEN Ended([task EXCEPT !.op = "get_user_devices"], Err(c.e, 0))
    ELSE IF Truthy(c.v) THEN list_devices(task, c.v, auto, pair, t)
    ELSE request_start([task EXCEPT !.op = "get_user"], auto, pair, t)

\* Does the step that took task from before to after create a transport (_get_client)?
Sends(before, after) == after.nref + after.nprim > before.nref + before.nprim

\* asyncio.gather(telemetry, attributes) as seen by the awaiting caller once a child
\* has ended: the first exception is raised at once; the results are returned when
\* both children have returned; otherwise the caller stays suspended.
gather(main, ended, other) ==
    IF ended.res.r = "raise" THEN [main EXCEPT !.pc = "gather_ready", !.res = ended.res]
    ELSE IF other.pc = "done" /\ other.res.r = "return" THEN [main EXCEPT !.pc = "gather_ready"]
    ELSE main

\* get_device_state after the gather: the pending exception, or the decoded state.
get_device_state_finish_TelemetryAlone(main, telemetry, attributes) ==
    IF telemetry.res.r = "return" THEN Ended(main, from_telemetry(telemetry.res.v, PyList(0)))
    ELSE Ended(main, main.res)

get_device_state_finish(main, telemetry, attributes) ==
    IF main.res.r = "raise" THEN Ended(main, main.res)
    ELSE Ended(main, from_telemetry(telemetry.res.v, attributes.res.v))

\* The tasks after task t has ended in res.  A child's end is seen by a caller that
\* still waits in the gather; once the gather is over nobody reads what a child
\* ends in, and the task is dropped.
TaskEnds(t, res) ==
    LET done == send_rpc_twoway_except(Ended(tasks[t], res)) IN
    IF t = Main THEN [tasks EXCEPT ![t] = done]
    ELSE IF tasks[Main].pc = "gather_wait"
    THEN [tasks EXCEPT ![t] = done,
                       ![Main] = gather(tasks[Main], done, tasks[CHOOSE c \in Children : c # t])]
    ELSE IF tasks[Main].pc = "gather_ready" THEN [tasks EXCEPT ![t] = done]
    ELSE [tasks EXCEPT ![t] = IdleTask]

\* The children once the caller has left the gather: those that have ended are
\* dropped, one still running goes on by itself.
Dropped(task) == IF task.pc = "done" THEN IdleTask ELSE task

\* The pair once an operation's request has ended in res.  logout's finally block
\* clears the pair however the request ended.
PairAfter_ClearOnSuccess(op, res, pair) ==
    IF op = "logout" /\ res.r = "return" THEN clear_tokens(pair) ELSE pair

PairAfter_ClearOnFailure(op, res, pair) ==
    IF op = "logout" \/ res.r = "raise" THEN clear_tokens(pair) ELSE pair

PairAfter(op, res, pair) == IF op = "logout" THEN clear_tokens(pair) ELSE pair

\* The history of the held pair follows it.
HistoryAfter(op, last) == IF op = "logout" THEN PyNone ELSE last

\* No transport was created yet, no scope entered, nothing called.
NoLife == [created |-> 0, closed |-> 0, entered |-> 0, last |-> "none"]

(***************************************************************************)
(* Initial state: a client just constructed, nobody logged in.             *)
(***************************************************************************)
Init ==
    /\ auto_refresh \in BOOLEAN
    /\ token_pair = NoPair
    /\ transport = FALSE
    /\ now = 0
    /\ tasks = [t \in Tasks |-> IdleTask]
    /\ lastTokens = PyNone
    /\ tk_out = NoRes
    /\ fn_in = NoRes
    /\ life = NoLife

CanCall == tasks[Main].pc \in {"idle", "done"}

\* A call of the caller that is one _request: login, logout, a one-way RPC.
StartCall(op) ==
    /\ CanCall
    /\ LET task == request_start(NewTask(op), auto_refresh, token_pair, now) IN
        /\ tasks' = [tasks EXCEPT ![Main] = task]
        /\ token_pair' = IF task.pc = "done" THEN PairAfter(op, task.res, token_pair) ELSE token_pair
        /\ lastTokens' = IF task.pc = "done" THEN HistoryAfter(op, lastTokens) ELSE lastTokens
        /\ transport' = (transport \/ Sends(NewTask(op), task))
    /\ UNCHANGED <<auto_refresh, now, tk_out, fn_in, life>>

Login == StartCall("login")

Logout == StartCall("logout")

SendRpcOneway == StartCall("api")

\* refresh_token() called by the caller.
RefreshToken ==
    /\ CanCall
    /\ LET task == refresh_token_start(NewTask("refresh_token"), token_pair) IN
        /\ tasks' = [tasks EXCEPT ![Main] = task]
        /\ transport' = (transport \/ Sends(NewTask("refresh_token"), task))
    /\ UNCHANGED <<auto_refresh, token_pair, now, lastTokens, tk_out, fn_in, life>>

\* get_device_state(): both sub-fetches run up to their first await, the caller
\* waits in the gather.
GetDeviceState ==
    /\ CanCall
    /\ \A c \in Children : tasks[c].pc \in {"idle", "done"}
    /\ LET tel == request_start(NewTask("telemetry"), auto_refresh, token_pair, now)
           att == request_start(NewTask("attributes"), auto_refresh, token_pair, now)
           waiting == [NewTask("get_device_state") EXCEPT !.pc = "gather_wait"]
           main == IF tel.pc = "done" THEN gather(waiting, tel, att)
                   ELSE IF att.pc = "done" THEN gather(waiting, att, tel)
                   ELSE waiting
       IN
        /\ tasks' = [tasks EXCEPT ![Main] = main, ![Telemetry] = tel, ![Attributes] = att]
        /\ transport' = (transport \/ Sends(NewTask("telemetry"), tel) \/ Sends(NewTask("attributes"), att))
    /\ UNCHANGED <<auto_refresh, token_pair, now, lastTokens, tk_out, fn_in, life>>

\* The answer to a refresh request reaches refresh_token(): the new pair is stored,
\* and an API call goes on to its primary request with the new headers.
RefreshAnswered(t, out) ==
    LET built == IF out.r = "raise" THEN out ELSE from_response(out.v) IN
    IF built.r = "raise" THEN
        /\ tasks' = TaskEnds(t, built)
        /\ token_pair' = PairAfter(tasks[t].op, built, token_pair)
        /\ lastTokens' = HistoryAfter(tasks[t].op, lastTokens)
    ELSE
        LET pair == set_tokens(token_pair, built.v) IN
        /\ lastTokens' = out.v
        /\ IF tasks[t].op = "refresh_token"
           THEN /\ tasks' = TaskEnds(t, Ret(built.v))
                /\ token_pair' = pair
           ELSE /\ tasks' = [tasks EXCEPT ![t] = send_primary(tasks[t], pair)]
                /\ token_pair' = pair

\* The answer to the primary request reaches the operation.  get_user_devices goes
\* on from the user to the listing request; its listing is PageData.from_dict(data),
\* which raises on anything but an object.
PrimaryAnswered(t, out) ==
    LET op == tasks[t].op IN
    IF op = "login" THEN
        LET built == IF out.r = "raise" THEN out ELSE from_response(out.v) IN
        IF built.r = "raise"
        THEN /\ tasks' = TaskEnds(t, built)
             /\ UNCHANGED <<token_pair, lastTokens>>
        ELSE /\ tasks' = TaskEnds(t, Ret(built.v))
             /\ token_pair' = set_tokens(token_pair, built.v)
             /\ lastTokens' = out.v
    ELSE IF op = "get_user" /\ out.r = "return" /\ user_customer_id(out.v).r = "return" THEN
        /\ tasks' = [tasks EXCEPT ![t] = list_devices([@ EXCEPT !.req = NoReq], user_customer_id(out.v).v,
                                                      auto_refresh, token_pair, now)]
        /\ UNCHANGED <<token_pair, lastTokens>>
    ELSE
        LET res == IF out.r = "raise" THEN out
                   ELSE IF op = "telemetry" THEN get_device_telemetry(out)
                   ELSE IF op = "attributes" THEN get_device_attributes(out)
                   ELSE IF op = "send_rpc_twoway" THEN out
                   ELSE IF op = "get_user" THEN Err(user_customer_id(out.v).e, 0)
                   ELSE IF op = "get_user_devices"
                   THEN (IF out.v.t = "dict" THEN Ret(PyList(0)) ELSE Err("AttributeError", 0))
                   ELSE Ret(PyNone)
        IN  /\ tasks' = TaskEnds(t, res)
            /\ token_pair' = PairAfter(op, res, token_pair)
            /\ lastTokens' = HistoryAfter(op, lastTokens)

\* The remote answers the request task t awaits, or the transport fails.
Respond(t) ==
    /\ tasks[t].req.sent
    /\ \E response \in Responses(tasks[t].req.endpoint) :
          IF tasks[t].pc = "await_refresh"
          THEN RefreshAnswered(t, RequestOutcome(response))
          ELSE PrimaryAnswered(t, RequestOutcome(response))
    /\ UNCHANGED <<auto_refresh, transport, now, tk_out, fn_in, life>>

\* The caller of get_device_state is resumed from the gather.
GatherResume ==
    /\ tasks[Main].pc = "gather_ready"
    /\ tasks' = [tasks EXCEPT ![Main] = get_device_state_finish(tasks[Main], tasks[Telemetry], tasks[Attributes]),
                              ![Telemetry] = Dropped(@),
                              ![Attributes] = Dropped(@)]
    /\ UNCHANGED <<auto_refresh, token_pair, transport, now, lastTokens, tk_out, fn_in, life>>

\* close(): the transport is closed and dropped (between requests).
Close ==
    /\ transport
    /\ \A t \in Tasks : ~tasks[t].req.sent
    /\ transport' = FALSE
    /\ UNCHANGED <<auto_refresh, token_pair, now, tasks, lastTokens, tk_out, fn_in, life>>

\* Time passes.
Tick ==
    /\ now < MaxNow
    /\ now' = now + 1
    /\ UNCHANGED <<auto_refresh, token_pair, transport, tasks, lastTokens, tk_out, fn_in, life>>

\* send_rpc_twoway(device_id, method, ...).
Methods == {"getState", "setSpeed"}

SendRpcTwoway ==
    /\ CanCall
    /\ \E method \in Methods :
        LET new == [NewTask("send_rpc_twoway") EXCEPT !.arg = PyStr(method)]
            task == send_rpc_twoway_except(request_start(new, auto_refresh, token_pair, now))
        IN  /\ tasks' = [tasks EXCEPT ![Main] = task]
            /\ transport' = (transport \/ Sends(new, task))
    /\ UNCHANGED <<auto_refresh, token_pair, now, lastTokens, tk_out, fn_in, life>>

\* get_user_devices().
GetUserDevices ==
    /\ CanCall
    /\ LET task == get_user_devices_start(NewTask("get_user_devices"), auto_refresh, token_pair, now) IN
        /\ tasks' = [tasks EXCEPT ![Main] = task]
        /\ transport' = (transport \/ Sends(NewTask("get_user_devices"), task))
    /\ UNCHANGED <<auto_refresh, token_pair, now, lastTokens, tk_out, fn_in, life>>

Next ==
    \/ Login
    \/ Logout
    \/ SendRpcOneway
    \/ RefreshToken
    \/ GetDeviceState
    \/ \E t \in Tasks : Respond(t)
    \/ GatherResume
    \/ Close
    \/ Tick

Spec == Init /\ [][Next]_vars

(***************************************************************************)
(* The operations built on one task's requests in a row: a two-way RPC and *)
(* the device listing, after a login and as time passes.                   *)
(***************************************************************************)
NextOps ==
    \/ Login
    \/ SendRpcTwoway
    \/ GetUserDevices
    \/ Respond(Main)
    \/ Tick

SpecOps == Init /\ [][NextOps]_vars

(***************************************************************************)
(* The life of the transport: the scope (async with), close() and the      *)
(* requests, each of which asks _get_client() for the transport.  life     *)
(* counts the transports created and closed and the scopes entered, and    *)
(* names the last operation.                                               *)
(***************************************************************************)
\* __aenter__: a new transport is created and held, whatever was held.
AEnter ==
    /\ life.created < MaxTransports
    /\ transport' = TRUE
    /\ life' = [life EXCEPT !.created = @ + 1, !.entered = @ + 1, !.last = "enter"]
    /\ UNCHANGED <<auto_refresh, token_pair, now, tasks, lastTokens, tk_out, fn_in>>

\* close(): the held transport, if any, is closed and let go.
close(held, history, op) ==
    [history EXCEPT !.closed = IF held THEN @ + 1 ELSE @, !.last = op]

\* __aexit__(exc_type, exc_val, exc_tb): close(), whether the scope is left
\* normally or by an exception.
AExit ==
    /\ life.entered > 0
    /\ \E exc \in BOOLEAN :
          life' = [close(transport, life, IF exc THEN "exit_error" ELSE "exit") EXCEPT !.entered = @ - 1]
    /\ transport' = FALSE
    /\ UNCHANGED <<auto_refresh, token_pair, now, tasks, lastTokens, tk_out, fn_in>>

\* close() called by the caller.
CloseClient ==
    /\ life' = close(transport, life, "close")
    /\ transport' = FALSE
    /\ UNCHANGED <<auto_refresh, token_pair, now, tasks, lastTokens, tk_out, fn_in>>

\* _get_client() as a request is sent: a transport is created if none is held.
GetClient ==
    /\ transport \/ life.created < MaxTransports
    /\ transport' = TRUE
    /\ life' = [life EXCEPT !.created = IF transport THEN @ ELSE @ + 1, !.last = "request"]
    /\ UNCHANGED <<auto_refresh, token_pair, now, tasks, lastTokens, tk_out, fn_in>>

NextTr ==
    \/ AEnter
    \/ AExit
    \/ CloseClient
    \/ GetClient

SpecTr == Init /\ [][NextTr]_vars

(***************************************************************************)
(* The Token Manager's functions on their own: a pair of token strings of  *)
(* any shape is held at some time, and a function is applied to it.        *)
(***************************************************************************)
\* exp claims around the buffer: the check turns at now = exp - BufferSeconds.
ExpValues == {0} \cup ((BufferSeconds - 1)..(BufferSeconds + MaxNow + 1))

ExpClaims ==
    {Absent, PyNone, PyStr(""), PyStr("abc"), PyBool(TRUE), PyBool(FALSE), PyList(1)}
    \cup { PyInt(e) : e \in ExpValues }

IdClaims == {Absent, PyNone, PyStr("id")}

Payloads ==
    {NotJson, PyNone, PyInt(0), PyInt(5), PyStr(""), PyStr("abc"), PyList(0), PyList(1), EmptyDict}
    \cup { JwtDict(e, Absent, Absent, FALSE) : e \in ExpClaims }
    \cup { JwtDict(PyInt(BufferSeconds + 1), u, c, TRUE) : u \in IdClaims, c \in IdClaims }

\* Three segments with payloads of every kind, other segment counts, and payload
\* lengths in each class modulo 4.
AnyTokens ==
    {EmptyToken}
    \cup { Token(3, 8, j) : j \in Payloads }
    \cup { Token(n, 8, JwtDict(PyInt(BufferSeconds + 1), Absent, Absent, FALSE)) : n \in {1, 2, 4} }
    \cup { Token(3, len, JwtDict(PyInt(BufferSeconds + 1), Absent, Absent, FALSE)) : len \in 5..7 }

AnyPairs ==
    {NoPair}
    \cup { TokenPair(a, a, "Bearer") : a \in AnyTokens }
    \cup { TokenPair(a, EmptyToken, "Token") : a \in AnyTokens }
    \cup { TokenPair(EmptyToken, r, "Bearer") : r \in AnyTokens }

Applied(fn, out) == [r |-> "applied", fn |-> fn, out |-> out]

InitTok ==
    /\ auto_refresh = TRUE
    /\ token_pair \in AnyPairs
    /\ transport = FALSE
    /\ now \in 0..MaxNow
    /\ tasks = [t \in Tasks |-> IdleTask]
    /\ lastTokens = PyNone
    /\ tk_out = NoRes
    /\ fn_in = NoRes
    /\ life = NoLife

Apply(fn, out) ==
    /\ tk_out' = Applied(fn, out)
    /\ UNCHANGED <<auto_refresh, token_pair, transport, now, tasks, lastTokens, fn_in, life>>

ApplyIsAuthenticated == Apply("is_authenticated", Ret(PyBool(is_authenticated(token_pair))))

ApplyGetAuthorizationHeader == Apply("get_authorization_header", Ret(get_authorization_header(token_pair)))

ApplyIsAccessTokenExpired == Apply("is_access_token_expired", is_access_token_expired(token_pair, now))

ApplyIsRefreshTokenExpired == Apply("is_refresh_token_expired", is_refresh_token_expired(token_pair, now))

ApplyGetUserId == Apply("get_user_id", get_user_id(token_pair))

ApplyGetCustomerId == Apply("get_customer_id", get_customer_id(token_pair))

NextTok ==
    \/ ApplyIsAuthenticated
    \/ ApplyGetAuthorizationHeader
    \/ ApplyIsAccessTokenExpired
    \/ ApplyIsRefreshTokenExpired
    \/ ApplyGetUserId
    \/ ApplyGetCustomerId

SpecTok == InitTok /\ [][NextTok]_vars

(***************************************************************************)
(* The Response Classifier on its own: a response of any status and body   *)
(* is handed to _handle_response.                                          *)
(***************************************************************************)
\* Responses of every kind.  Statuses: success, other 2xx, client and server
\* errors.  Bodies: empty, text, JSON that is no object, an object without a
\* message, with a null or non-string message, with a string message; some
\* messages hold several of the phrases the 401 branch looks for.
ClsInputs ==
    LET Statuses == {200, 201, 204, 400, 401, 403, 404, 429, 500}
        ClsMessages ==
            Messages \cup { MsgNotActive \o <<" ">> \o MsgInvalid,
                            MsgExpired \o <<" ">> \o MsgNotActive,
                            MsgNotActiveCaps \o <<" ">> \o MsgExpiredCaps,
                            Lower(MsgInvalid) }
        AnyBodies ==
            { EmptyBody, TextBody(FALSE), JsonBody(PyNone), JsonBody(PyInt(5)), JsonBody(PyList(0)),
              JsonBody(PyList(1)), JsonBody(PlainObject) }
            \cup { JsonBody(JsonObject(m, Absent, Absent, Absent, Absent)) :
                      m \in {PyNone, PyInt(5), PyBool(TRUE), PyList(1)} }
            \cup { JsonBody(JsonObject(PyText(m), Absent, Absent, Absent, Absent)) : m \in ClsMessages }
    IN  { Http(st, b) : st \in Statuses, b \in AnyBodies }

InitCls ==
    /\ auto_refresh = TRUE
    /\ token_pair = NoPair
    /\ transport = FALSE
    /\ now = 0
    /\ tasks = [t \in Tasks |-> IdleTask]
    /\ lastTokens = PyNone
    /\ tk_out = NoRes
    /\ fn_in \in ClsInputs
    /\ life = NoLife

ApplyHandleResponse ==
    /\ tk_out = NoRes
    /\ tk_out' = Applied("handle_response", handle_response(fn_in))
    /\ UNCHANGED <<auto_refresh, token_pair, transport, now, tasks, lastTokens, fn_in, life>>

\* get_device_telemetry or get_device_attributes whose request got the response.
ApplyOpaqueEndpoint ==
    /\ tk_out = NoRes
    /\ \/ tk_out' = Applied("get_device_telemetry", get_device_telemetry(RequestOutcome(fn_in)))
       \/ tk_out' = Applied("get_device_attributes", get_device_attributes(RequestOutcome(fn_in)))
    /\ UNCHANGED <<auto_refresh, token_pair, transport, now, tasks, lastTokens, fn_in, life>>

SpecCls == InitCls /\ [][ApplyHandleResponse \/ ApplyOpaqueEndpoint]_vars

(***************************************************************************)
(* The state decoder on its own: a telemetry snapshot and an attribute     *)
(* snapshot are handed to PranaState.from_telemetry.                       *)
(***************************************************************************)
\* Inputs of the decoder.  Lookups: a key in telemetry in every form (nothing,
\* null, a list of samples that is empty, with or without a value, or several, a
\* list of bare values, a bare value) against the same key in the attributes, as a
\* flat mapping or as a list of records.  Sleep timer: every pair of bytes in the
\* attributes, and bytes in telemetry too.  Malformed: telemetry that is no
\* mapping, records lacking a member, items that are no records, timestamps of
\* every kind.
DecoderInputs ==
    LET KeySeq == <<"lastActivityTime", "sleepSecondsLsb", "sleepSecondsMsb", "motorsSup", "motorsExt",
                    "powerPosition", "humidity">>
        With1(k, v) == [NoEntries EXCEPT ![k] = v]
        With2(k1, v1, k2, v2) == [NoEntries EXCEPT ![k1] = v1, ![k2] = v2]
        AttrsAs(shape, e) ==
            IF shape = "dict" THEN Snapshot(e)
            ELSE LET present == SelectSeq(KeySeq, LAMBDA k : e[k] # Absent)
                 IN  ListOf([i \in 1..Len(present) |-> Rec(PyStr(present[i]), e[present[i]])])
        Shapes == {"dict", "list"}
        Input(telemetry, attributes) == [telemetry |-> telemetry, attributes |-> attributes]
        FieldValues ==
            { PyInt(v) : v \in 0..MaxMotor }
            \cup { PyNone, PyInt(-5), PyBool(TRUE), PyText(<<"3", "0">>), PyText(<<"2", "5", ".", "7">>),
                   PyText(<<"a", "b", "c">>), PyText(<<"i", "n", "f">>), PyText(<<>>),
                   PyFloat(257), PyInf, PyNan, PyList(1), PyObject }
        TelEntries ==
            { Absent, PyNone, ListOf(<<>>), ListOf(<<Sample(Absent)>>),
              ListOf(<<Sample(PyInt(10)), Sample(PyInt(40))>>), ListOf(<<PyInt(20)>>), PyInt(0), PyInt(20) }
            \cup { ListOf(<<Sample(v)>>) : v \in FieldValues }
        SmallEntries ==
            { Absent, ListOf(<<>>), ListOf(<<Sample(PyNone)>>), ListOf(<<Sample(PyInt(1))>>),
              ListOf(<<Sample(PyFloat(5))>>) }
        Bytes == { PyInt(b) : b \in 0..MaxByte }
        Timestamps ==
            { PyBig("epoch_ms"), PyBig("year_overflow"), PyBig("time_t_overflow"), PyText(<<"a", "b", "c">>),
              PyInt(0), PyNone, PyInf, PyNan, PyBool(TRUE), PyList(1) }
        LookupInputs ==
            { Input(Snapshot(With1(k, e)), AttrsAs(sh, With1(k, a))) :
                k \in {"motorsSup", "motorsExt"}, e \in TelEntries, a \in {Absent, PyNone, PyInt(40)}, sh \in Shapes }
            \cup { Input(Snapshot(With1(k, e)), AttrsAs(sh, With1(k, a))) :
                k \in {"powerPosition", "humidity"}, e \in SmallEntries, a \in {Absent, PyInt(1), PyFloat(5)},
                sh \in Shapes }
        SleepInputs ==
            { Input(Snapshot(NoEntries), Snapshot(With2("sleepSecondsLsb", l, "sleepSecondsMsb", m))) :
                l \in Bytes \cup {Absent}, m \in Bytes \cup {Absent} }
            \cup { Input(Snapshot(With2("sleepSecondsLsb", tl, "sleepSecondsMsb", tm)),
                         AttrsAs(sh, With2("sleepSecondsLsb", l, "sleepSecondsMsb", m))) :
                tl \in {Absent, ListOf(<<Sample(PyInt(5))>>)}, tm \in {Absent, ListOf(<<Sample(PyInt(2))>>)},
                l \in {Absent, PyInt(30)}, m \in {Absent, PyInt(1)}, sh \in Shapes }
        MalformedInputs ==
            { Input(t, a) :
                t \in { PyNone, [t |-> "text", haskey |-> FALSE], [t |-> "text", haskey |-> TRUE], PyList(0),
                        PyList(1), Snapshot(NoEntries) },
                a \in { PyNone, PyList(0), PyList(1), Snapshot(NoEntries),
                        ListOf(<<Rec(PyStr("motorsSup"), Absent)>>), ListOf(<<Rec(Absent, PyInt(5))>>),
                        ListOf(<<Rec(PyStr("motorsSup"), PyInt(40)), PyInt(5)>>),
                        ListOf(<<Rec(PyStr("other"), PyInt(1)), Rec(PyStr("motorsSup"), PyInt(40))>>),
                        ListOf(<<Rec(PyStr("motorsSup"), PyInt(40)), Rec(PyStr("motorsSup"), PyInt(10))>>) } }
            \cup { Input(Snapshot(NoEntries), AttrsAs(sh, With1("lastActivityTime", ts))) :
                      ts \in Timestamps, sh \in Shapes }
            \cup { Input(Snapshot(With1("lastActivityTime", ListOf(<<Sample(PyBig("epoch_ms"))>>))),
                         Snapshot(NoEntries)) }
    IN  LookupInputs \cup SleepInputs \cup MalformedInputs

InitDec ==
    /\ auto_refresh = TRUE
    /\ token_pair = NoPair
    /\ transport = FALSE
    /\ now = 0
    /\ tasks = [t \in Tasks |-> IdleTask]
    /\ lastTokens = PyNone
    /\ tk_out = NoRes
    /\ fn_in \in DecoderInputs
    /\ life = NoLife

ApplyFromTelemetry ==
    /\ tk_out = NoRes
    /\ tk_out' = Applied("from_telemetry", from_telemetry(fn_in.telemetry, fn_in.attributes))
    /\ UNCHANGED <<auto_refresh, token_pair, transport, now, tasks, lastTokens, fn_in, life>>

SpecDec == InitDec /\ [][ApplyFromTelemetry]_vars

(***************************************************************************)
(* The synchronous facade, PranaClientSync: a blocking call looks up the   *)
(* method of its name on the facade and, when there is one, runs the       *)
(* asynchronous client's coroutine to completion on the facade's loop.     *)
(* fn_in holds the operation's name, the outcome of the asynchronous       *)
(* operation for the responses it gets and the pair it leaves.             *)
(***************************************************************************)
\* The public coroutines of PranaClient (async def).
AsyncOperations ==
    {"close", "login", "refresh_token", "logout", "change_password", "signup",
     "activate_by_email_code", "request_password_reset", "reset_password",
     "get_user", "get_user_devices", "get_device", "get_device_telemetry",
     "get_device_attributes", "get_device_state", "send_rpc_oneway",
     "send_rpc_twoway", "button_click", "rename_device",
     "set_auto_heater_temperature", "set_scenarios", "get_entity_groups",
     "get_group_devices"}

\* The methods of PranaClientSync that run a coroutine.
SyncOperations ==
    {"close", "login", "logout", "refresh_token", "get_user", "get_user_devices",
     "get_device", "get_device_state", "get_device_telemetry",
     "get_device_attributes", "send_rpc_oneway", "send_rpc_twoway",
     "button_click", "rename_device", "set_auto_heater_temperature",
     "get_entity_groups", "get_group_devices"}

\* client.<name>(...) on the facade.  A name the facade does not define is an
\* AttributeError; _run returns what the coroutine returns and raises what it
\* raises; the methods written without "return" give None.
PranaClientSync_call(name, out) ==
    LET run_until_complete == out
        Discarding == {"close", "logout", "send_rpc_oneway", "button_click",
                       "rename_device", "set_auto_heater_temperature"} IN
    IF name \notin SyncOperations THEN Err("AttributeError", 0)
    ELSE IF run_until_complete.r = "raise" THEN run_until_complete
    ELSE IF name \in Discarding THEN Ret(PyNone)
    ELSE Ret(run_until_complete.v)

InitSync ==
    LET ReturnsNone == {"close", "logout", "change_password", "request_password_reset",
                        "reset_password", "send_rpc_oneway", "button_click",
                        "rename_device", "set_auto_heater_temperature", "set_scenarios"}
        Results(name) == IF name \in ReturnsNone THEN {Ret(PyNone)}
                          ELSE {Ret(PyList(0)), Ret(PyStr("ok"))}
        Outcomes(name) == Results(name) \cup { Err(k, 0) : k \in ErrorKinds }
        PairsLeft == { p \in AnyPairs : p.held => p.access_token = p.refresh_token } IN
    /\ auto_refresh = TRUE
    /\ token_pair = NoPair
    /\ transport = FALSE
    /\ now = 0
    /\ tasks = [t \in Tasks |-> IdleTask]
    /\ lastTokens = PyNone
    /\ tk_out = NoRes
    /\ \E name \in AsyncOperations : \E out \in Outcomes(name) : \E pair \in PairsLeft :
          fn_in = [name |-> name, out |-> out, pair |-> pair]
    /\ life = NoLife

\* The operation awaited on the asynchronous client, or called on the facade.
ApplyFacade ==
    /\ tk_out = NoRes
    /\ \/ /\ tk_out' = Applied("async", fn_in.out)
          /\ token_pair' = fn_in.pair
       \/ /\ tk_out' = Applied("sync", PranaClientSync_call(fn_in.name, fn_in.out))
          /\ token_pair' = IF fn_in.name \in SyncOperations THEN fn_in.pair ELSE token_pair
    /\ UNCHANGED <<auto_refresh, transport, now, tasks, lastTokens, fn_in, life>>

SpecSync == InitSync /\ [][ApplyFacade]_vars

(***************************************************************************)
(* Properties.                                                             *)
(***************************************************************************)
Expired(token) == is_token_expired(token, now) = Ret(PyBool(TRUE))

\* Task t starts a request in this step.
Starts(t) ==
    /\ tasks[t].pc \in {"idle", "done"}
    /\ tasks'[t].pc \in {"await_refresh", "await_primary"}

\* The condition under which an API call refreshes the token first.
RefreshDue ==
    /\ auto_refresh
    /\ token_pair.held
    /\ token_pair.access_token # EmptyToken
    /\ Expired(token_pair.access_token)
    /\ token_pair.refresh_token # EmptyToken
    /\ ~Expired(token_pair.refresh_token)

\* C1: an API call that needs authentication sends a refresh request exactly if
\* auto_refresh is on, the client is authenticated, the access token is expired and
\* the refresh token is not; the refresh is then answered before the primary
\* request goes out, and a call that did not refresh at its start never does.
C1_RefreshIffDue ==
    [][\A t \in Tasks :
        /\ (Starts(t) /\ tasks'[t].op \in AuthOps) =>
              /\ RefreshDue <=> (tasks'[t].req.endpoint = "token" /\ tasks'[t].nref = 1)
              /\ RefreshDue => tasks'[t].nprim = 0
              /\ ~RefreshDue => (tasks'[t].nref = 0 /\ tasks'[t].req.endpoint = tasks'[t].op)
        /\ (tasks[t].pc \in {"await_refresh", "await_primary"} /\ tasks'[t].op \in AuthOps) =>
              /\ tasks'[t].nref = tasks[t].nref
              /\ tasks'[t].nprim > tasks[t].nprim =>
                    (tasks[t].req.endpoint = "token" /\ tasks'[t].req.endpoint = tasks'[t].op)
      ]_vars

\* C1 witness: an API call has refreshed the token and then sent its primary request.
C1_Witness ==
    \E t \in Tasks : /\ tasks[t].op \in AuthOps
                     /\ tasks[t].pc = "await_primary"
                     /\ tasks[t].nref = 1
                     /\ tasks[t].nprim = 1

\* logout() ends in this step, by returning or by raising.
LogoutEnds ==
    /\ tasks'[Main].op = "logout"
    /\ tasks'[Main].pc = "done"
    /\ tasks'[Main] # tasks[Main]

\* C2: when logout() ends, however its requests ended, no token pair is held and
\* the client is not authenticated.
C2_LogoutClears ==
    [][LogoutEnds => (token_pair' = NoPair /\ ~is_authenticated(token_pair'))]_vars

\* C2 witness: a logout whose automatic refresh failed has raised, and no pair is held.
C2_Witness ==
    /\ tasks[Main].op = "logout"
    /\ tasks[Main].pc = "done"
    /\ tasks[Main].res.r = "raise"
    /\ tasks[Main].nref = 1
    /\ tasks[Main].nprim = 0
    /\ token_pair = NoPair

\* get_device_state() ends in this step.
StateFetchEnds == tasks[Main].pc = "gather_ready" /\ tasks'[Main].pc = "done"

Returned(task) == task.pc = "done" /\ task.res.r = "return"
Raised(task) == task.pc = "done" /\ task.res.r = "raise"

\* C3: get_device_state returns a state only if both sub-fetches returned; if a
\* sub-fetch raised, the call raises the error of a sub-fetch that raised.
C3_NoPartialState ==
    [][StateFetchEnds =>
        /\ tasks'[Main].res.r = "return" => (Returned(tasks[Telemetry]) /\ Returned(tasks[Attributes]))
        /\ (Raised(tasks[Telemetry]) \/ Raised(tasks[Attributes])) =>
              /\ tasks'[Main].res.r = "raise"
              /\ \E c \in Children : Raised(tasks[c]) /\ tasks'[Main].res = tasks[c].res
      ]_vars

\* C3 witness: get_device_state has raised the not-found error of a sub-fetch.
C3_Witness ==
    /\ tasks[Main].op = "get_device_state"
    /\ tasks[Main].pc = "done"
    /\ tasks[Main].res = Err("DeviceNotFoundError", 404)

\* C4: when get_device_state has ended, by returning or by raising, no request of
\* its two sub-fetches is still in flight.
C4_NothingInFlight ==
    (tasks[Main].op = "get_device_state" /\ tasks[Main].pc = "done")
        => \A c \in Children : ~tasks[c].req.sent

\* refresh_token() is called in this step.
RefreshCalled ==
    /\ CanCall
    /\ tasks'[Main].op = "refresh_token"
    /\ tasks'[Main] # tasks[Main]

\* C5: refresh_token() called while no refresh token is held (no pair, or an empty
\* refresh token) raises the token-expired error without sending a request, and
\* leaves the held pair as it was.
C5_RefreshWithoutToken ==
    [][(RefreshCalled /\ (~token_pair.held \/ token_pair.refresh_token = EmptyToken)) =>
          /\ tasks'[Main].pc = "done"
          /\ tasks'[Main].res = Err("TokenExpiredError", 0)
          /\ tasks'[Main].req = NoReq
          /\ tasks'[Main].nref = 0 /\ tasks'[Main].nprim = 0
          /\ token_pair' = token_pair
          /\ transport' = transport
      ]_vars

\* C5 witness: refresh_token() has raised at once while a pair with an empty
\* refresh token is held.
C5_Witness ==
    /\ tasks[Main].op = "refresh_token"
    /\ tasks[Main].pc = "done"
    /\ tasks[Main].res = Err("TokenExpiredError", 0)
    /\ tasks[Main].nref = 0
    /\ token_pair.held
    /\ token_pair.refresh_token = EmptyToken

\* C6: a refresh whose refresh token was already expired when the operation was
\* called, and which the remote rejects as unauthenticated, surfaces as the
\* token-expired error.
C6_ExpiredRefreshSurfaces ==
    [][(/\ tasks[Main].pc = "await_refresh"
        /\ is_token_expired(tasks[Main].req.refreshToken, tasks[Main].since) = Ret(PyBool(TRUE))
        /\ tasks'[Main].pc = "done"
        /\ tasks'[Main].res.r = "raise"
        /\ tasks'[Main].res.status = 401)
          => tasks'[Main].res.e = "TokenExpiredError"
      ]_vars

\* C7: the held pair is absent or is, field by field, the pair of the one response
\* it was last built from.
C7_PairFromOneResponse ==
    \/ token_pair = NoPair
    \/ /\ lastTokens.t = "dict"
       /\ token_pair.access_token =
             (IF lastTokens.token # Absent THEN lastTokens.token
              ELSE IF lastTokens.accessToken # Absent THEN lastTokens.accessToken
              ELSE EmptyToken)
       /\ token_pair.refresh_token =
             (IF lastTokens.refreshToken # Absent THEN lastTokens.refreshToken ELSE EmptyToken)
       /\ token_pair.token_type =
             (IF lastTokens.tokenType # Absent THEN lastTokens.tokenType.s ELSE "Bearer")

\* C7 witness: a refresh has replaced a pair that had a refresh token by one that
\* has none.
C7_Witness ==
    /\ tasks[Main].op = "refresh_token"
    /\ tasks[Main].pc = "done"
    /\ tasks[Main].res.r = "return"
    /\ token_pair.held
    /\ token_pair.refresh_token = EmptyToken

(***************************************************************************)
(* Properties of the Token Manager's functions (SpecTok).                  *)
(***************************************************************************)
Was(fn) == tk_out.r = "applied" /\ tk_out.fn = fn

\* C8: is_authenticated is true iff a pair is held and its access token is not
\* empty, whatever the refresh token; the authorization header is absent iff that
\* is false, and is otherwise "<token type> <access token>".
C8_AuthenticatedAndHeader ==
    LET authed == token_pair.held /\ token_pair.access_token # EmptyToken IN
    /\ Was("is_authenticated") => (tk_out.out.v.b <=> authed)
    /\ Was("get_authorization_header") =>
          /\ (tk_out.out.v = NoHeader) <=> ~authed
          /\ authed => tk_out.out.v = [present |-> TRUE, scheme |-> token_pair.token_type,
                                       credentials |-> token_pair.access_token]

\* C8 witness: the header was asked for while a pair with a refresh token and an
\* empty access token is held.
C8_Witness ==
    /\ Was("get_authorization_header")
    /\ token_pair.held
    /\ token_pair.access_token = EmptyToken
    /\ token_pair.refresh_token # EmptyToken
    /\ tk_out.out.v = NoHeader

\* A token of three segments whose payload decodes to an object with an integer exp.
HasIntExp(token) ==
    /\ token.parts = 3
    /\ token.plen % 4 # 1
    /\ token.json.t = "dict"
    /\ token.json.exp.t = "int"

\* A token with a wrong segment count, an undecodable payload, or no exp claim.
Malformed(token) ==
    \/ token.parts # 3
    \/ token.plen % 4 = 1
    \/ token.json = NotJson
    \/ (token.json.t = "dict" /\ token.json.exp = Absent)

ExpiryRule(token, out) ==
    /\ HasIntExp(token) => out = Ret(PyBool(now >= token.json.exp.n - BufferSeconds))
    /\ Malformed(token) => out = Ret(PyBool(TRUE))

\* C9: a token with an integer exp claim is reported expired iff now >= exp - 60;
\* a token with no exp claim, a wrong segment count or an undecodable payload is
\* reported expired.
C9_ExpiryRule ==
    /\ (Was("is_access_token_expired") /\ HasAccessToken(token_pair)) =>
          ExpiryRule(token_pair.access_token, tk_out.out)
    /\ (Was("is_refresh_token_expired") /\ HasRefreshToken(token_pair)) =>
          ExpiryRule(token_pair.refresh_token, tk_out.out)

\* C9 witness: an access token is reported expired at the first second of its buffer.
C9_Witness ==
    /\ Was("is_access_token_expired")
    /\ HasAccessToken(token_pair)
    /\ HasIntExp(token_pair.access_token)
    /\ now > 0
    /\ now = token_pair.access_token.json.exp.n - BufferSeconds
    /\ tk_out.out = Ret(PyBool(TRUE))

\* C10: the expiry checks and the claim getters return a value for every token
\* string and never raise.
C10_NeverRaises ==
    (tk_out.r = "applied"
        /\ tk_out.fn \in {"is_access_token_expired", "is_refresh_token_expired", "get_user_id", "get_customer_id"})
      => tk_out.out.r = "return"

(***************************************************************************)
(* Properties of the Response Classifier (SpecCls).                        *)
(***************************************************************************)
\* C11: for every status code and every body the classifier yields a success value
\* or an error of one of the defined kinds, never another exception.
C11_ClassifierTotal ==
    Was("handle_response") => (tk_out.out.r = "return" \/ tk_out.out.e \in ErrorKinds)

\* The message of a 401 body is a string.
Has401Message ==
    /\ fn_in.status = 401
    /\ fn_in.body.content = "json"
    /\ fn_in.body.json.t = "dict"
    /\ fn_in.body.json.message.t = "str"

\* The kind the stated order gives for a message.
KindByOrder(chars) ==
    IF Contains(NEEDLE_INVALID, chars) THEN "InvalidCredentialsError"
    ELSE IF Contains(NEEDLE_NOT_ACTIVE, Lower(chars)) THEN "UserNotActiveError"
    ELSE IF Contains(NEEDLE_EXPIRED, Lower(chars)) THEN "TokenExpiredError"
    ELSE "AuthenticationError"

\* C12: a 401 is sub-classified by its message: invalid-credentials if it contains
\* "Invalid username or password" as written, otherwise account-inactive if it
\* contains "not active" in any letter case, otherwise token-expired if it contains
\* "expired" in any letter case, otherwise the generic authentication failure.
C12_SubclassOrder ==
    (Was("handle_response") /\ Has401Message) =>
        tk_out.out = Err(KindByOrder(fn_in.body.json.message.chars), 401)

\* C13: 200 with a body yields the parsed payload, or the text when it is not JSON;
\* 200 with an empty body yields None; 404 yields not-found, 429 rate-limited, and
\* every other status but 401, other 2xx codes included, the generic API error with
\* that status code.
C13_StatusOutcome ==
    Was("handle_response") =>
        /\ (fn_in.status = 200 /\ fn_in.body.content = "json") => tk_out.out = Ret(fn_in.body.json)
        /\ (fn_in.status = 200 /\ fn_in.body.content = "text") =>
              (tk_out.out.r = "return" /\ tk_out.out.v.t = "text")
        /\ (fn_in.status = 200 /\ fn_in.body.content = "empty") => tk_out.out = Ret(PyNone)
        /\ fn_in.status = 404 => tk_out.out = Err("DeviceNotFoundError", 404)
        /\ fn_in.status = 429 => tk_out.out = Err("RateLimitError", 429)
        /\ fn_in.status \notin {200, 401, 404, 429} => tk_out.out = Err("PranaAPIError", fn_in.status)

\* C13 witness: a 204 with an empty body was classified as the generic API error 204.
C13_Witness ==
    /\ Was("handle_response")
    /\ fn_in.status = 204
    /\ fn_in.body = EmptyBody
    /\ tk_out.out = Err("PranaAPIError", 204)

\* The success payload of a response: the parsed body, the text, or None.
Payload(response) ==
    IF response.body.content = "json" THEN response.body.json
    ELSE IF response.body.content = "text" THEN [t |-> "text", haskey |-> response.body.haskey]
    ELSE PyNone

\* C25: get_device_telemetry and get_device_attributes return the success payload
\* of the response as it is, whether it is a list, a mapping, text or absent.
C25_OpaquePayload ==
    ((Was("get_device_telemetry") \/ Was("get_device_attributes")) /\ fn_in.status = 200) =>
        tk_out.out = Ret(Payload(fn_in))

(***************************************************************************)
(* Properties of the state decoder (SpecDec).                              *)
(***************************************************************************)
Decoded == Was("from_telemetry") /\ tk_out.out.r = "return"

\* What telemetry holds under key k, when telemetry is a mapping whose entry is
\* missing, null or a list: the value of the first sample, None when there is none.
ListedIn(telemetry, k) ==
    /\ telemetry.t = "dict"
    /\ Entries(telemetry)[k].t \in {"absent", "null", "list"}

TelValue(telemetry, k) ==
    LET entry == Entries(telemetry)[k] IN
    IF entry.t # "list" THEN PyNone
    ELSE IF entry.len = 0 THEN PyNone
    ELSE IF Items(entry)[1].t = "sample" THEN DictGet(Items(entry)[1].value)
    ELSE Items(entry)[1]

\* What the attributes hold under key k, in either shape.
AttrValue(attributes, k) ==
    IF attributes.t = "dict" THEN DictGet(Entries(attributes)[k])
    ELSE IF attributes.t = "list" THEN
        LET found == SelectSeq(Items(attributes), LAMBDA a : a.t = "rec" /\ a.key = PyStr(k))
        IN  IF Len(found) = 0 THEN PyNone ELSE DictGet(found[1].value)
    ELSE PyNone

Resolved(k) ==
    IF TelValue(fn_in.telemetry, k) # PyNone THEN TelValue(fn_in.telemetry, k)
    ELSE AttrValue(fn_in.attributes, k)

\* The decoded field of key k agrees with value v, for the values whose decoding
\* is plain: None, an integer, a float.
FieldIs(k, v) ==
    LET state == tk_out.out.v IN
    CASE k = "motorsSup" -> (v.t = "null" => state.supply_speed = PyNone)
                            /\ (v.t = "int" => state.supply_speed = PyInt(v.n \div 10))
      [] k = "motorsExt" -> (v.t = "null" => state.extract_speed = PyNone)
                            /\ (v.t = "int" => state.extract_speed = PyInt(v.n \div 10))
      [] k = "powerPosition" -> (v.t = "null" => state.is_power_on = PyBool(FALSE))
                                /\ (v.t = "int" => state.is_power_on = PyBool(v.n >= 1))
      [] k = "humidity" -> (v.t = "null" => state.humidity = PyNone)
                           /\ (v.t = "int" => state.humidity = PyFloat(10 * v.n))
                           /\ (v.t = "float" => state.humidity = v)

RawSupply == Entries(fn_in.telemetry)["motorsSup"].items[1].value

OneSupplySample ==
    /\ fn_in.telemetry.t = "dict"
    /\ Entries(fn_in.telemetry)["motorsSup"].t = "list"
    /\ Entries(fn_in.telemetry)["motorsSup"].len = 1
    /\ Entries(fn_in.telemetry)["motorsSup"].items[1].t = "sample"
    /\ AttrValue(fn_in.attributes, "motorsSup") = PyNone

\* Values that are no number and no text of a number.
NotConvertible ==
    {PyText(<<"a", "b", "c">>), PyText(<<>>), PyText(<<"i", "n", "f">>), PyInf, PyNan, PyList(1), PyObject}

\* C15: a raw motor value v in 0..50 decodes to the display speed v floor-divided
\* by 10; an absent value, or one that does not convert to an integer, decodes to
\* an absent speed.
C15_DisplaySpeed ==
    (Was("from_telemetry") /\ OneSupplySample) =>
        /\ (RawSupply.t = "int" /\ RawSupply.n \in 0..MaxMotor) =>
              (tk_out.out.r = "return" /\ tk_out.out.v.supply_speed = PyInt(RawSupply.n \div 10))
        /\ (RawSupply \in {Absent, PyNone} \cup NotConvertible) =>
              (tk_out.out.r = "return" /\ tk_out.out.v.supply_speed = PyNone)

\* The bytes are in a flat attribute mapping and telemetry has none.
ByteOf(v) == IF v = Absent THEN 0 ELSE v.n

BytesInAttributes ==
    /\ fn_in.telemetry = Snapshot(NoEntries)
    /\ fn_in.attributes.t = "dict"
    /\ \A k \in {"sleepSecondsLsb", "sleepSecondsMsb"} :
          \/ Entries(fn_in.attributes)[k] = Absent
          \/ (Entries(fn_in.attributes)[k].t = "int" /\ Entries(fn_in.attributes)[k].n \in 0..MaxByte)
    /\ Entries(fn_in.attributes)["lastActivityTime"] = Absent

\* C16: sleep_seconds is the low byte plus 256 times the high byte, for all bytes
\* in 0..255, a missing byte counting as 0.
C16_SleepSeconds ==
    (Was("from_telemetry") /\ BytesInAttributes) =>
        /\ tk_out.out.r = "return"
        /\ tk_out.out.v.sleep_seconds =
              PyInt(ByteOf(Entries(fn_in.attributes)["sleepSecondsLsb"])
                    + 256 * ByteOf(Entries(fn_in.attributes)["sleepSecondsMsb"]))

\* C16 witness: low byte 30 and high byte 1 were decoded as 286 seconds.
C16_Witness ==
    /\ Decoded
    /\ BytesInAttributes
    /\ Entries(fn_in.attributes)["sleepSecondsLsb"] = PyInt(30)
    /\ Entries(fn_in.attributes)["sleepSecondsMsb"] = PyInt(1)
    /\ tk_out.out.v.sleep_seconds = PyInt(286)

\* The byte the attribute snapshot holds under k, 0 when it has none.
AttrByte(k) ==
    LET v == AttrValue(fn_in.attributes, k) IN IF v.t = "int" THEN v.n ELSE 0

\* C17: the sleep-timer bytes are read from the attributes: whatever telemetry
\* carries, sleep_seconds is what the attribute snapshot alone gives.
C17_SleepFromAttributes ==
    Decoded =>
        tk_out.out.v.sleep_seconds = PyInt(AttrByte("sleepSecondsLsb") + 256 * AttrByte("sleepSecondsMsb"))

\* C18: decoding returns a state for every telemetry payload and every attribute
\* snapshot, and never raises.
C18_DecodingNeverRaises ==
    Was("from_telemetry") => tk_out.out.r = "return"


\* C26: the decoded state keeps every entry of its input: raw_telemetry is the
\* telemetry snapshot, raw_attributes is the attribute snapshot when that is a
\* mapping, and holds the key and value of every record when it is a list, also
\* when several records carry one key.
C26_RawRetained ==
    Decoded =>
        /\ tk_out.out.v.raw_telemetry = fn_in.telemetry
        /\ fn_in.attributes.t = "dict" => tk_out.out.v.raw_attributes = fn_in.attributes
        /\ (fn_in.attributes.t = "list" /\ fn_in.attributes.len > 0) =>
              \A i \in 1..fn_in.attributes.len :
                  <<Items(fn_in.attributes)[i].key, Items(fn_in.attributes)[i].value>>
                      \in tk_out.out.v.raw_attributes.pairs

(***************************************************************************)
(* Properties of the two-way RPC and the device listing (SpecOps).         *)
(***************************************************************************)
\* send_rpc_twoway has raised.
RpcRaised ==
    /\ tasks[Main].op = "send_rpc_twoway"
    /\ tasks[Main].pc = "done"
    /\ tasks[Main].res.r = "raise"

\* The kinds of an error answer of the remote that is no authentication error.
RemoteErrorKinds == {"PranaAPIError", "DeviceNotFoundError", "RateLimitError"}

\* C19: send_rpc_twoway raises the RPC error, with the status code of the
\* underlying error and the method name, exactly when its request ended in an
\* error answer of the remote; a transport failure and an authentication error
\* reach the caller under their own kinds.
C19_RpcFailureKind ==
    RpcRaised =>
        LET res == tasks[Main].res IN
        /\ res.e = "RPCError" =>
              /\ res.cause \in RemoteErrorKinds
              /\ res.status # 0
              /\ res.method = tasks[Main].arg
        /\ res.e \notin RemoteErrorKinds

\* get_user_devices is called in this step.
DevicesCalled ==
    /\ CanCall
    /\ tasks'[Main] # tasks[Main]
    /\ tasks'[Main].op \in {"get_user", "get_user_devices"}

\* The customerId claim of the held access token, None when no token is held, the
\* token has no payload object, or the payload has no such claim.
HeldClaim ==
    LET payload == IF HasAccessToken(token_pair) THEN decode_jwt_payload(token_pair.access_token)
                   ELSE EmptyDict
    IN  IF payload.t = "dict" THEN DictGet(payload.customerId) ELSE PyNone

\* The customer id of the user a user-info answer describes, None when the answer
\* is an error or names no customer id.
UserIdOf(response) ==
    IF /\ response.http
       /\ response.status = 200
       /\ response.body.content = "json"
       /\ response.body.json.t = "dict"
       /\ "customerId" \in DOMAIN response.body.json
       /\ response.body.json.customerId.t = "entity"
       /\ response.body.json.customerId.id # Absent
    THEN response.body.json.customerId.id
    ELSE PyNone

\* C20: get_user_devices takes the customer id from the claim of the held access
\* token when the claim is there, and sends no user-info request; when the claim
\* is not there it turns to one user-info request and takes that user's customer
\* id; when neither gives an id it raises and sends no listing request.
C20_CustomerIdResolution ==
    [][/\ DevicesCalled =>
            IF Truthy(HeldClaim)
            THEN /\ tasks'[Main].op = "get_user_devices"
                 /\ tasks'[Main].arg = HeldClaim
                 /\ tasks'[Main].req.sent => tasks'[Main].req.endpoint \in {"token", "get_user_devices"}
            ELSE /\ tasks'[Main].op = "get_user"
                 /\ tasks'[Main].pc = "await_primary" =>
                        (tasks'[Main].req.endpoint = "get_user" /\ tasks'[Main].nprim = 1)
       /\ (tasks[Main].op = "get_user" /\ tasks[Main].pc = "await_primary" /\ tasks'[Main] # tasks[Main]) =>
            \E response \in Responses("get_user") :
                IF Truthy(UserIdOf(response))
                THEN /\ tasks'[Main].op = "get_user_devices"
                     /\ tasks'[Main].arg = UserIdOf(response)
                     /\ tasks[Main].nprim = 1
                ELSE /\ tasks'[Main].pc = "done"
                     /\ tasks'[Main].res.r = "raise"
                     /\ tasks'[Main].req = NoReq
                     /\ tasks'[Main].nprim = 1
      ]_vars


(***************************************************************************)
(* Further properties of the client's calls (Spec).                        *)
(***************************************************************************)
\* login() is called in this step.
LoginCalled ==
    /\ CanCall
    /\ tasks'[Main].op = "login"
    /\ tasks'[Main] # tasks[Main]

\* C21: login sends exactly one request, the login request, without an
\* Authorization header and without a refresh before it, whatever pair is held;
\* when it returns, the held pair is the pair built from the response, which is
\* also the value returned.
C21_LoginOneRequest ==
    [][/\ LoginCalled =>
            /\ tasks'[Main].pc = "await_primary"
            /\ tasks'[Main].req = Request("login", NoHeader, Absent)
            /\ tasks'[Main].nref = 0
            /\ tasks'[Main].nprim = 1
       /\ (tasks[Main].op = "login" /\ tasks[Main].pc = "await_primary" /\ tasks'[Main] # tasks[Main]) =>
            /\ tasks'[Main].pc = "done"
            /\ tasks'[Main].req = NoReq
            /\ tasks'[Main].nref = 0
            /\ tasks'[Main].nprim = 1
            /\ tasks'[Main].res.r = "return" =>
                  /\ token_pair' = tasks'[Main].res.v
                  /\ token_pair' = from_response(lastTokens').v
      ]_vars

\* C21 witness: a login request is in flight, without a header, while the held
\* pair is due for a refresh.
C21_Witness ==
    /\ tasks[Main].op = "login"
    /\ tasks[Main].pc = "await_primary"
    /\ tasks[Main].req.auth = NoHeader
    /\ tasks[Main].nref = 0
    /\ RefreshDue


\* The refresh requests in flight.
RefreshesInFlight == {t \in Tasks : tasks[t].req.sent /\ tasks[t].req.endpoint = "token"}

\* C27: at most one refresh request is in flight at any time, and one call sends
\* at most one: a get_device_state call sends one refresh for its two
\* sub-fetches together.
C27_OneRefresh ==
    /\ Cardinality(RefreshesInFlight) <= 1
    /\ \A t \in Tasks : tasks[t].nref <= 1
    /\ tasks[Main].pc \in {"gather_wait", "gather_ready"} =>
          tasks[Telemetry].nref + tasks[Attributes].nref <= 1

\* Task t hears in this step that its login or its refresh has failed.
TokenRequestFails(t) ==
    /\ tasks[t].pc \in {"await_refresh", "await_primary"}
    /\ tasks[t].pc = "await_refresh" \/ tasks[t].op = "login"
    /\ tasks'[t].pc \in {"done", "idle"}
    /\ tasks'[t].res.r # "return"

\* Task t hears in this step that its login or its refresh has succeeded.
TokenRequestSucceeds(t) ==
    /\ tasks[t].pc \in {"await_refresh", "await_primary"}
    /\ tasks[t].pc = "await_refresh" \/ tasks[t].op = "login"
    /\ \/ tasks'[t].pc = "await_primary" /\ tasks[t].pc = "await_refresh"
       \/ tasks'[t].pc \in {"done", "idle"} /\ tasks[t].op \in {"login", "refresh_token"}

\* C28: a login or a refresh, explicit or automatic, that fails leaves the held
\* pair as it was (unless the call is a logout); the pair changes only when a
\* login or a refresh succeeds, to the pair of that response, or when a logout ends.
C28_FailureKeepsPair ==
    [][/\ \A t \in Tasks :
            (TokenRequestFails(t) /\ tasks[t].op # "logout") => token_pair' = token_pair
       /\ token_pair' # token_pair =>
            \/ /\ \E t \in Tasks : TokenRequestSucceeds(t)
               /\ token_pair' = from_response(lastTokens').v
            \/ /\ tasks'[Main].op = "logout"
               /\ tasks'[Main].pc = "done"
               /\ token_pair' = NoPair
      ]_vars

\* C28 witness: an explicit refresh was answered with a body no pair can be built
\* from, and the pair is still held.
C28_Witness ==
    /\ tasks[Main].op = "refresh_token"
    /\ tasks[Main].pc = "done"
    /\ tasks[Main].res = Err("AttributeError", 0)
    /\ tasks[Main].nref = 1
    /\ token_pair.held
    /\ lastTokens.t = "dict"

\* C29: when the automatic refresh of a call succeeds, the primary request carries
\* the Authorization header of the pair just stored; a refresh request carries no
\* Authorization header and is not preceded by another refresh.
C29_HeaderFromNewToken ==
    [][\A t \in Tasks :
        /\ (tasks[t].pc = "await_refresh" /\ tasks'[t].pc = "await_primary") =>
              /\ token_pair' = from_response(lastTokens').v
              /\ tasks'[t].req.auth = get_authorization_header(token_pair')
              /\ HasAccessToken(token_pair') =>
                    tasks'[t].req.auth = AuthHeader(token_pair'.token_type, token_pair'.access_token)
              /\ tasks'[t].nref = tasks[t].nref
        /\ (tasks'[t].req.sent /\ tasks'[t].req.endpoint = "token") =>
              /\ tasks'[t].req.auth = NoHeader
              /\ tasks'[t].nref = 1
              /\ tasks'[t].nprim = 0
      ]_vars

\* C29 witness: after its refresh a one-way RPC is in flight with the header of
\* the held pair, whose token type the refresh has changed.
C29_Witness ==
    /\ tasks[Main].op = "api"
    /\ tasks[Main].pc = "await_primary"
    /\ tasks[Main].nref = 1
    /\ token_pair.held
    /\ tasks[Main].req.auth = AuthHeader("Token", token_pair.access_token)


(***************************************************************************)
(* Further properties of the calls that send requests in a row (SpecOps).  *)
(***************************************************************************)
\* Task t awaits the answer to a request.
Awaits(t) == tasks[t].pc \in {"await_refresh", "await_primary"}

Open == life.created - life.closed

\* C23: a client creates at most one transport in its life; when a scope is left,
\* normally or by an error, every transport created has been closed and none is
\* held.
C23_OneTransportReleased ==
    /\ life.created <= 1
    /\ life.last \in {"exit", "exit_error"} => (~transport /\ Open = 0)

\* C30: in every order of scope entry, requests and close(), each transport
\* created is the one held or has been closed; after close() none is held.
C30_NoTransportLeaked ==
    /\ Open = (IF transport THEN 1 ELSE 0)
    /\ life.last = "close" => ~transport


(***************************************************************************)
(* Properties of the synchronous facade (SpecSync).                        *)
(***************************************************************************)
\* C24: every asynchronous operation has a blocking counterpart, and the blocking
\* call gives the result or the error of the asynchronous call, unchanged, and
\* leaves the same pair.
C24_FacadeEquivalent ==
    (tk_out.r = "applied" /\ tk_out.fn = "sync") =>
        /\ fn_in.name \in SyncOperations
        /\ tk_out.out = fn_in.out
        /\ token_pair = fn_in.pair

====
